---- MODULE Spec2Model ----
(***************************************************************************)
(* Model of sap-stocks-tool.py: the exchange-rate resolver with its        *)
(* process-lifetime cache, the transaction processor, the ledger assembler *)
(* and the persistence of ledger entries.                                  *)
(*                                                                         *)
(* Decimal values are exact rationals [n, d] in lowest terms (the code     *)
(* uses binary floating point; rounding is not modelled).  A calendar date *)
(* is its proleptic ordinal (0001-01-01 = 1): ISO 'YYYY-MM-DD' strings and *)
(* the resolver's 'MM-DD-YYYY' keys are both one-to-one with the ordinal   *)
(* and ISO strings compare like ordinals.                                  *)
(***************************************************************************)
EXTENDS Integers, Sequences, FiniteSets, TLC

VARIABLES
    published,        \* dates for which the rate source has a quotation
    cache,            \* BCB_CACHE_FOR_EUR_REQUESTS: dict key date -> result
    calls,            \* history: the resolver calls made by the process, or
                      \* by the current pass over the ledger
    command,          \* "none" | "resolve" | "extract" | "merge" | "process"
    pc,               \* "start" | "processing" | "saved" | "reloaded" | "error"
    err,              \* the exception that ended the run, "none" otherwise
    registry,         \* the in-memory list of StockTransactionEntry
    idx,              \* position of the for loop of process_transactions
    total_qty,        \* process_transactions local
    total_cost_brl,   \* process_transactions local
    current_avg_price,\* process_transactions local
    inputs,           \* what the command was given (files or raw records)
    output,           \* rows of the written output file, <<"nofile">> if none
    reloaded,         \* entries read back from the output file
    pass              \* which pass over the ledger this is: 1, then 2

vars == <<published, cache, calls, command, pc, err, registry, idx, total_qty,
          total_cost_brl, current_avg_price, inputs, output, reloaded, pass>>

----------------------------------------------------------------------------
(* Bounds *)
MaxDate == 3
MaxCalls == 3
MaxLen == 3
MaxRecords == 3

(* datetime.min is 0001-01-01, ordinal 1 *)
MinOrdinal == 1

Dates == MinOrdinal..MaxDate

----------------------------------------------------------------------------
(* Exact decimal arithmetic *)
Abs(x) == IF x < 0 THEN -x ELSE x

RECURSIVE GCD(_, _)
GCD(a, b) == IF b = 0 THEN a ELSE GCD(b, a % b)

Num(n, d) ==
    LET g == GCD(Abs(n), Abs(d))
        s == IF d < 0 THEN -1 ELSE 1
    IN [k |-> "num", n |-> (s * n) \div g, d |-> (s * d) \div g]

Int2Num(i) == Num(i, 1)
Zero == Int2Num(0)
Add(a, b) == Num(a.n * b.d + b.n * a.d, a.d * b.d)
Sub(a, b) == Num(a.n * b.d - b.n * a.d, a.d * b.d)
Mul(a, b) == Num(a.n * b.n, a.d * b.d)
Div(a, b) == Num(a.n * b.d, a.d * b.n)
IsNum(v) == v.k = "num"

(* Python None, float nan, and an attribute that was never set *)
None == [k |-> "None", n |-> 0, d |-> 1]
NaN == [k |-> "nan", n |-> 0, d |-> 1]
Unset == [k |-> "unset", n |-> 0, d |-> 1]

TAX_ON_PROFIT_PERCENTAGE == Num(15, 100)

----------------------------------------------------------------------------
(* The historical rate source: what it answers for a date *)
QuoteOf(d) == [cotacaoCompra |-> Int2Num(4 + d), cotacaoVenda |-> Num(21 + 5 * d, 5)]

Query(pub, date) ==
    IF date \in pub THEN [value |-> <<QuoteOf(date)>>] ELSE [value |-> <<>>]

(* dict assignment cache[date] = result *)
CachePut(c, date, result) ==
    [x \in (DOMAIN c) \cup {date} |-> IF x = date THEN result ELSE c[x]]

(* variant: the result is cached under the date that was asked, before the
   date is moved back *)
RECURSIVE ResolveLoop_CacheAskedDate(_, _, _, _)
ResolveLoop_CacheAskedDate(pub, c, date, q) ==
    LET result == Query(pub, date)
    IN IF Len(result.value) = 0
       THEN IF date = MinOrdinal
            THEN [cache |-> c, date |-> date, queries |-> q + 1,
                  raised |-> "OverflowError", result |-> result]
            ELSE ResolveLoop_CacheAskedDate(pub, CachePut(c, date, result), date - 1, q + 1)
       ELSE [cache |-> CachePut(c, date, result), date |-> date, queries |-> q + 1,
             raised |-> "none", result |-> result]

(* variant: the walk back stops one day early *)
RECURSIVE ResolveLoop_StopsEarly(_, _, _, _)
ResolveLoop_StopsEarly(pub, c, date, q) ==
    LET result == Query(pub, date)
    IN IF Len(result.value) = 0
       THEN IF date <= MinOrdinal + 1
            THEN [cache |-> c, date |-> date, queries |-> q + 1,
                  raised |-> "OverflowError", result |-> result]
            ELSE ResolveLoop_StopsEarly(pub, CachePut(c, date - 1, result), date - 1, q + 1)
       ELSE [cache |-> CachePut(c, date, result), date |-> date, queries |-> q + 1,
             raised |-> "none", result |-> result]

(* the while loop of _get_eur_quotation_data_for_date, q requests made so far *)
RECURSIVE ResolveLoop(_, _, _, _)
ResolveLoop(pub, c, date, q) ==
    LET result == Query(pub, date)
    IN IF Len(result.value) = 0
       THEN IF date = MinOrdinal
            THEN [cache |-> c, date |-> date, queries |-> q + 1,
                  raised |-> "OverflowError", result |-> result]
            ELSE ResolveLoop(pub, CachePut(c, date - 1, result), date - 1, q + 1)
       ELSE [cache |-> CachePut(c, date, result), date |-> date, queries |-> q + 1,
             raised |-> "none", result |-> result]

get_eur_quotation_data_for_date(pub, c, date) ==
    IF date \in DOMAIN c
    THEN [cache |-> c, date |-> date, queries |-> 0, raised |-> "none", result |-> c[date]]
    ELSE ResolveLoop(pub, c, date, 0)

(* result[VALUE_JSON_KEY][0][key], on the outcome r of the lookup *)
PriceOf(r, key) ==
    IF r.raised # "none" THEN [raised |-> r.raised, price |-> None]
    ELSE IF Len(r.result.value) = 0 THEN [raised |-> "IndexError", price |-> None]
    ELSE [raised |-> "none",
          price |-> IF key = "cotacaoCompra" THEN r.result.value[1].cotacaoCompra
                    ELSE r.result.value[1].cotacaoVenda]

get_price_for_buying_eur_at_date(pub, c, date) ==
    LET r == get_eur_quotation_data_for_date(pub, c, date)
        p == PriceOf(r, "cotacaoCompra")
    IN [cache |-> r.cache, date |-> date, type |-> "EUR_TO_BRL", resolved |-> r.date,
        queries |-> r.queries, raised |-> p.raised, price |-> p.price]

get_price_for_selling_eur_at_date(pub, c, date) ==
    LET r == get_eur_quotation_data_for_date(pub, c, date)
        p == PriceOf(r, "cotacaoVenda")
    IN [cache |-> r.cache, date |-> date, type |-> "BRL_TO_EUR", resolved |-> r.date,
        queries |-> r.queries, raised |-> p.raised, price |-> p.price]

(* the record kept in the history for one call *)
CallRecord(r, hit) ==
    [date |-> r.date, type |-> r.type, resolved |-> r.resolved, queries |-> r.queries,
     raised |-> r.raised, price |-> r.price, hit |-> hit]

----------------------------------------------------------------------------
NoFile == <<"nofile">>

InitCommon ==
    /\ cache = <<>>
    /\ calls = <<>>
    /\ pc = "start"
    /\ err = "none"
    /\ registry = <<>>
    /\ idx = 1
    /\ total_qty = Zero
    /\ total_cost_brl = Zero
    /\ current_avg_price = Zero
    /\ inputs = <<>>
    /\ output = NoFile
    /\ reloaded = <<>>
    /\ pass = 1

(* A process that only asks for prices, in any order *)
InitResolver ==
    /\ InitCommon
    /\ published \in SUBSET Dates
    /\ command = "resolve"

PriceCall(r) ==
    /\ cache' = r.cache
    /\ calls' = Append(calls, CallRecord(r, r.date \in DOMAIN cache))
    /\ pc' = IF r.raised = "none" THEN pc ELSE "error"
    /\ err' = r.raised
    /\ UNCHANGED <<published, command, registry, idx, total_qty, total_cost_brl,
                   current_avg_price, inputs, output, reloaded, pass>>

AskBuyingPrice ==
    /\ command = "resolve" /\ pc = "start" /\ Len(calls) < MaxCalls
    /\ \E d \in Dates : PriceCall(get_price_for_buying_eur_at_date(published, cache, d))

AskSellingPrice ==
    /\ command = "resolve" /\ pc = "start" /\ Len(calls) < MaxCalls
    /\ \E d \in Dates : PriceCall(get_price_for_selling_eur_at_date(published, cache, d))

NextResolver == AskBuyingPrice \/ AskSellingPrice

SpecResolver == InitResolver /\ [][NextResolver]_vars

----------------------------------------------------------------------------
(* Ledger entries and their persisted rows *)
OpTypeMembers == {"BUY", "SELL"}
CurrencyConversionTypeMembers == {"EUR_TO_BRL", "BRL_TO_EUR"}

EnumMembers(enum_class) ==
    IF enum_class = "OpType" THEN OpTypeMembers
    ELSE IF enum_class = "CurrencyConversionType" THEN CurrencyConversionTypeMembers
    ELSE {}

(* __init__ of StockTransactionEntry; total_cost_brl is no attribute yet *)
StockTransactionEntry(date, op_type, qty, tq, cur_conv_rate, cur_conv_type, avg_price, price_eur, price_brl, net_proceeds, profit, tax) ==
    [date |-> date, op_type |-> op_type, qty |-> qty, total_qty |-> tq,
     cur_conv_rate |-> cur_conv_rate, cur_conv_type |-> cur_conv_type,
     avg_price |-> avg_price, price_eur |-> price_eur, price_brl |-> price_brl,
     net_proceeds |-> net_proceeds, profit |-> profit, tax |-> tax,
     total_cost_brl |-> Unset]

(* variant: the key is the date alone *)
KeyLessEq_DateOnly(x, y) == x.date <= y.date

(* sort_by_date: the key (date, 0 if BUY else 1), compared as a tuple *)
KeyLessEq(x, y) ==
    LET rx == IF x.op_type = "BUY" THEN 0 ELSE 1
        ry == IF y.op_type = "BUY" THEN 0 ELSE 1
    IN x.date < y.date \/ (x.date = y.date /\ rx <= ry)

(* a stable sort: x goes after every element whose key is not greater *)
RECURSIVE InsertByKey(_, _)
InsertByKey(sorted, x) ==
    IF sorted = <<>> THEN <<x>>
    ELSE IF KeyLessEq(sorted[Len(sorted)], x) THEN Append(sorted, x)
    ELSE Append(InsertByKey(SubSeq(sorted, 1, Len(sorted) - 1), x), sorted[Len(sorted)])

RECURSIVE SortByDate(_)
SortByDate(entries) ==
    IF entries = <<>> THEN <<>>
    ELSE InsertByKey(SortByDate(SubSeq(entries, 1, Len(entries) - 1)), entries[Len(entries)])

(* cells of the spreadsheet: a number, a text 'Class.MEMBER', or nothing *)
Blank == [k |-> "blank", n |-> 0, d |-> 1]
Text(cls, member) == [kind |-> "text", cls |-> cls, member |-> member]
BlankText == [kind |-> "blank", cls |-> "", member |-> ""]

NumberCell(v) == IF IsNum(v) THEN v ELSE Blank
EnumCell(enum_class, v) == IF v = "None" THEN BlankText ELSE Text(enum_class, v)

(* one row per entry, one column per key of entry.__dict__ *)
RowOf(e) ==
    [date |-> e.date, op_type |-> EnumCell("OpType", e.op_type),
     qty |-> NumberCell(e.qty), total_qty |-> NumberCell(e.total_qty),
     cur_conv_rate |-> NumberCell(e.cur_conv_rate),
     cur_conv_type |-> EnumCell("CurrencyConversionType", e.cur_conv_type),
     avg_price |-> NumberCell(e.avg_price), price_eur |-> NumberCell(e.price_eur),
     price_brl |-> NumberCell(e.price_brl), net_proceeds |-> NumberCell(e.net_proceeds),
     profit |-> NumberCell(e.profit), tax |-> NumberCell(e.tax),
     total_cost_brl |-> NumberCell(e.total_cost_brl)]

save_stock_entries_to_excel(entries) == [i \in 1..Len(entries) |-> RowOf(entries[i])]

parse_enum(enum_class, value) ==
    IF value.kind # "text" THEN "None"
    ELSE IF value.cls = enum_class /\ value.member \in EnumMembers(enum_class)
         THEN value.member
         ELSE "None"

(* an empty cell is read as nan *)
CellValue(c) == IF c = Blank THEN NaN ELSE c

EntryOfRow(row) ==
    StockTransactionEntry(row.date, parse_enum("OpType", row.op_type), CellValue(row.qty),
        CellValue(row.total_qty), CellValue(row.cur_conv_rate),
        parse_enum("CurrencyConversionType", row.cur_conv_type), CellValue(row.avg_price),
        CellValue(row.price_eur), CellValue(row.price_brl), CellValue(row.net_proceeds),
        CellValue(row.profit), CellValue(row.tax))

load_stock_entries_from_excel(rows) == [i \in 1..Len(rows) |-> EntryOfRow(rows[i])]

----------------------------------------------------------------------------
(* The ledger assembler *)
merge_transactional_data(buy_transactional_data, sell_transactional_data) ==
    LET buys == [i \in 1..Len(buy_transactional_data) |->
                    StockTransactionEntry(buy_transactional_data[i].date, "BUY",
                        buy_transactional_data[i].qty, None, None, "EUR_TO_BRL", None,
                        buy_transactional_data[i].price_eur, None, None, None, None)]
        sells == [i \in 1..Len(sell_transactional_data) |->
                    StockTransactionEntry(sell_transactional_data[i].date, "SELL",
                        sell_transactional_data[i].qty, None, None, "BRL_TO_EUR", None,
                        sell_transactional_data[i].price_eur, None,
                        sell_transactional_data[i].net_proceeds, None, None)]
    IN SortByDate(buys \o sells)

----------------------------------------------------------------------------
(* The transaction processor: one iteration of the for loop per action *)
Aggregates(tq, tc, avg) == [total_qty |-> tq, total_cost_brl |-> tc, current_avg_price |-> avg]

(* variant: the average is the one of the purchased lot alone *)
BuyUpdate_LotAverage(agg, t, buying_price_eur) ==
    LET tq == Add(agg.total_qty, t.qty)
        price_brl == Mul(Mul(t.price_eur, t.qty), buying_price_eur)
        tc == Add(agg.total_cost_brl, price_brl)
    IN IF tq.n = 0
       THEN [raised |-> "ZeroDivisionError",
             agg |-> Aggregates(tq, tc, agg.current_avg_price), t |-> t]
       ELSE [raised |-> "none",
             agg |-> Aggregates(tq, tc, Div(price_brl, t.qty)),
             t |-> [t EXCEPT !.cur_conv_rate = buying_price_eur, !.total_qty = tq,
                             !.price_brl = price_brl, !.total_cost_brl = tc,
                             !.avg_price = Div(price_brl, t.qty)]]

BuyUpdate(agg, t, buying_price_eur) ==
    LET tq == Add(agg.total_qty, t.qty)
        price_brl == Mul(Mul(t.price_eur, t.qty), buying_price_eur)
        tc == Add(agg.total_cost_brl, price_brl)
    IN IF tq.n = 0
       THEN [raised |-> "ZeroDivisionError",
             agg |-> Aggregates(tq, tc, agg.current_avg_price), t |-> t]
       ELSE [raised |-> "none",
             agg |-> Aggregates(tq, tc, Div(tc, tq)),
             t |-> [t EXCEPT !.cur_conv_rate = buying_price_eur, !.total_qty = tq,
                             !.price_brl = price_brl, !.total_cost_brl = tc,
                             !.avg_price = Div(tc, tq)]]

(* variant: the holdings never go below zero *)
SellUpdate_Clamped(agg, t, selling_price_eur) ==
    LET diff == Sub(agg.total_qty, t.qty)
        tq == IF diff.n < 0 THEN Zero ELSE diff
        tc == Sub(agg.total_cost_brl, Mul(t.qty, agg.current_avg_price))
        profit == Sub(Mul(selling_price_eur, t.net_proceeds),
                      Mul(t.qty, agg.current_avg_price))
    IN [raised |-> "none",
        agg |-> Aggregates(tq, tc, agg.current_avg_price),
        t |-> [t EXCEPT !.cur_conv_rate = selling_price_eur, !.total_qty = tq,
                        !.profit = profit, !.avg_price = agg.current_avg_price,
                        !.price_brl = Mul(t.price_eur, selling_price_eur),
                        !.tax = Mul(profit, TAX_ON_PROFIT_PERCENTAGE)]]

(* variant: no tax on a loss *)
SellUpdate_TaxFloor(agg, t, selling_price_eur) ==
    LET tq == Sub(agg.total_qty, t.qty)
        tc == Sub(agg.total_cost_brl, Mul(t.qty, agg.current_avg_price))
        profit == Sub(Mul(selling_price_eur, t.net_proceeds),
                      Mul(t.qty, agg.current_avg_price))
    IN [raised |-> "none",
        agg |-> Aggregates(tq, tc, agg.current_avg_price),
        t |-> [t EXCEPT !.cur_conv_rate = selling_price_eur, !.total_qty = tq,
                        !.profit = profit, !.avg_price = agg.current_avg_price,
                        !.price_brl = Mul(t.price_eur, selling_price_eur),
                        !.tax = IF profit.n < 0 THEN Zero
                                ELSE Mul(profit, TAX_ON_PROFIT_PERCENTAGE)]]

(* variant: the average price is reset when the holdings reach zero *)
SellUpdate_ResetAverage(agg, t, selling_price_eur) ==
    LET tq == Sub(agg.total_qty, t.qty)
        tc == Sub(agg.total_cost_brl, Mul(t.qty, agg.current_avg_price))
        avg == IF tq = Zero THEN Zero ELSE agg.current_avg_price
        profit == Sub(Mul(selling_price_eur, t.net_proceeds),
                      Mul(t.qty, agg.current_avg_price))
    IN [raised |-> "none",
        agg |-> Aggregates(tq, tc, avg),
        t |-> [t EXCEPT !.cur_conv_rate = selling_price_eur, !.total_qty = tq,
                        !.profit = profit, !.avg_price = avg,
                        !.price_brl = Mul(t.price_eur, selling_price_eur),
                        !.tax = Mul(profit, TAX_ON_PROFIT_PERCENTAGE)]]

SellUpdate(agg, t, selling_price_eur) ==
    LET tq == Sub(agg.total_qty, t.qty)
        tc == Sub(agg.total_cost_brl, Mul(t.qty, agg.current_avg_price))
        profit == Sub(Mul(selling_price_eur, t.net_proceeds),
                      Mul(t.qty, agg.current_avg_price))
    IN [raised |-> "none",
        agg |-> Aggregates(tq, tc, agg.current_avg_price),
        t |-> [t EXCEPT !.cur_conv_rate = selling_price_eur, !.total_qty = tq,
                        !.profit = profit, !.avg_price = agg.current_avg_price,
                        !.price_brl = Mul(t.price_eur, selling_price_eur),
                        !.tax = Mul(profit, TAX_ON_PROFIT_PERCENTAGE)]]

(* inputs of the model: the values found in the persisted ledgers *)
Quantities == {Int2Num(4), Int2Num(10)}
PriceEur == Int2Num(20)
NetProceeds == Int2Num(76)

PurchaseRow(date, qty) ==
    RowOf(StockTransactionEntry(date, "BUY", qty, None, None, "EUR_TO_BRL", None,
                                PriceEur, None, None, None, None))
SaleRow(date, qty) ==
    RowOf(StockTransactionEntry(date, "SELL", qty, None, None, "BRL_TO_EUR", None,
                                PriceEur, None, NetProceeds, None, None))
(* a row whose operation text names no member of OpType, or lacks the class *)
BadTags == {Text("OpType", "HOLD"), Text("", "BUY")}
BadRow(date, tag) == [PurchaseRow(date, Int2Num(10)) EXCEPT !.op_type = tag]

Rows ==
    {PurchaseRow(d, q) : d \in Dates, q \in Quantities}
        \cup {SaleRow(d, q) : d \in Dates, q \in Quantities}
        \cup {BadRow(d, t) : d \in Dates, t \in BadTags}

(* ledgers of at most MaxLen rows, in any order *)
PersistedLedgers == UNION {[1..n -> Rows] : n \in 0..MaxLen}

(* the rate calendars of the process flow: a quotation every third day, or none *)
BusinessDays == {d \in Dates : d % 3 = 1}

InitProcess ==
    /\ InitCommon
    /\ published \in {BusinessDays, {}}
    /\ command = "process"

LoadLedger ==
    /\ command = "process" /\ pc = "start"
    /\ \E file \in PersistedLedgers :
        /\ inputs' = <<file>>
        /\ registry' = load_stock_entries_from_excel(file)
    /\ pc' = "processing"
    /\ idx' = 1
    /\ total_qty' = Zero /\ total_cost_brl' = Zero /\ current_avg_price' = Zero
    /\ UNCHANGED <<published, cache, calls, command, err, output, reloaded, pass>>

(* the rest of an iteration once the price call r has returned or raised *)
ApplyTransaction(r, u) ==
    /\ cache' = r.cache
    /\ calls' = Append(calls, CallRecord(r, r.date \in DOMAIN cache))
    /\ IF r.raised # "none"
       THEN /\ pc' = "error" /\ err' = r.raised
            /\ UNCHANGED <<registry, idx, total_qty, total_cost_brl, current_avg_price>>
       ELSE /\ total_qty' = u.agg.total_qty
            /\ total_cost_brl' = u.agg.total_cost_brl
            /\ current_avg_price' = u.agg.current_avg_price
            /\ registry' = [registry EXCEPT ![idx] = u.t]
            /\ IF u.raised # "none"
               THEN pc' = "error" /\ err' = u.raised /\ idx' = idx
               ELSE pc' = pc /\ err' = err /\ idx' = idx + 1
    /\ UNCHANGED <<published, command, inputs, output, reloaded, pass>>

CurrentAggregates == Aggregates(total_qty, total_cost_brl, current_avg_price)

ProcessBuy ==
    /\ command = "process" /\ pc = "processing" /\ idx <= Len(registry)
    /\ registry[idx].op_type = "BUY"
    /\ LET r == get_price_for_buying_eur_at_date(published, cache, registry[idx].date)
       IN ApplyTransaction(r, BuyUpdate(CurrentAggregates, registry[idx], r.price))

ProcessSell ==
    /\ command = "process" /\ pc = "processing" /\ idx <= Len(registry)
    /\ registry[idx].op_type = "SELL"
    /\ LET r == get_price_for_selling_eur_at_date(published, cache, registry[idx].date)
       IN ApplyTransaction(r, SellUpdate(CurrentAggregates, registry[idx], r.price))

ProcessUnsupported ==
    /\ command = "process" /\ pc = "processing" /\ idx <= Len(registry)
    /\ registry[idx].op_type \notin {"BUY", "SELL"}
    /\ pc' = "error" /\ err' = "ValueError"
    /\ UNCHANGED <<published, cache, calls, command, registry, idx, total_qty,
                   total_cost_brl, current_avg_price, inputs, output, reloaded, pass>>

SaveProcessed ==
    /\ command = "process" /\ pc = "processing" /\ idx > Len(registry)
    /\ output' = save_stock_entries_to_excel(registry)
    /\ pc' = "saved"
    /\ UNCHANGED <<published, cache, calls, command, err, registry, idx, total_qty,
                   total_cost_brl, current_avg_price, inputs, reloaded, pass>>

(* a later run reads the written file back *)
ReloadOutput ==
    /\ pc = "saved"
    /\ reloaded' = load_stock_entries_from_excel(output)
    /\ pc' = "reloaded"
    /\ UNCHANGED <<published, cache, calls, command, err, registry, idx, total_qty,
                   total_cost_brl, current_avg_price, inputs, output, pass>>

Next == LoadLedger \/ ProcessBuy \/ ProcessSell \/ ProcessUnsupported
            \/ SaveProcessed \/ ReloadOutput

Spec == InitProcess /\ [][Next]_vars

----------------------------------------------------------------------------
(* The extract and merge flows *)
BuyRecords == {[date |-> d, price_eur |-> PriceEur, qty |-> q] : d \in Dates, q \in Quantities}
SellRecords ==
    {[date |-> d, price_eur |-> PriceEur, qty |-> q, net_proceeds |-> NetProceeds] :
        d \in Dates, q \in Quantities}

SeqsUpTo(S, n) == UNION {[1..m -> S] : m \in 0..n}

(* rows of the one or two ledgers handed to merge, in any order *)
MergeRows ==
    {PurchaseRow(d, Int2Num(10)) : d \in Dates}
        \cup {SaleRow(d, Int2Num(10)) : d \in Dates}
        \cup {BadRow(d, Text("OpType", "HOLD")) : d \in Dates}

(* the entries of all input files, file after file *)
LoadAll(files) ==
    IF Len(files) = 1 THEN load_stock_entries_from_excel(files[1])
    ELSE load_stock_entries_from_excel(files[1]) \o load_stock_entries_from_excel(files[2])

InitAssemble ==
    /\ InitCommon
    /\ published = BusinessDays
    /\ command \in {"extract", "merge"}

ExtractData ==
    /\ command = "extract" /\ pc = "start"
    /\ \E buy_data \in SeqsUpTo(BuyRecords, MaxRecords) :
       \E sell_data \in SeqsUpTo(SellRecords, MaxRecords - Len(buy_data)) :
        /\ inputs' = <<buy_data, sell_data>>
        /\ registry' = merge_transactional_data(buy_data, sell_data)
        /\ output' = save_stock_entries_to_excel(registry')
    /\ pc' = "saved"
    /\ UNCHANGED <<published, cache, calls, command, err, idx, total_qty,
                   total_cost_brl, current_avg_price, reloaded, pass>>

MergeData ==
    /\ command = "merge" /\ pc = "start"
    /\ \E f \in SeqsUpTo(MergeRows, MaxRecords) :
       \E g \in SeqsUpTo(MergeRows, MaxRecords - Len(f)) :
       \E input_files \in {<<f>>, <<f, g>>} :
        /\ inputs' = input_files
        /\ registry' = SortByDate(LoadAll(input_files))
        /\ output' = save_stock_entries_to_excel(registry')
    /\ pc' = "saved"
    /\ UNCHANGED <<published, cache, calls, command, err, idx, total_qty,
                   total_cost_brl, current_avg_price, reloaded, pass>>

NextAssemble == ExtractData \/ MergeData \/ ReloadOutput

SpecAssemble == InitAssemble /\ [][NextAssemble]_vars

----------------------------------------------------------------------------
(* Expected answers of the resolver *)
HasPrior(d) == \E x \in published : x <= d

MostRecent(d) == CHOOSE x \in published : x <= d /\ \A y \in published : y <= d => y <= x

QuoteFor(d, type) ==
    IF type = "EUR_TO_BRL" THEN QuoteOf(d).cotacaoCompra ELSE QuoteOf(d).cotacaoVenda

(* call c fell back from a date without a rate to an earlier date *)
FellBack(c) == c.raised = "none" /\ c.resolved # c.date

\* C1 (as claimed): every call for a date d that has a published rate on or
\* before it returns the quote of the most recent such date, buy quote for
\* EUR_TO_BRL and sell quote for BRL_TO_EUR, whatever was resolved earlier.
C1_ResolvesMostRecent ==
    \A i \in 1..Len(calls) :
        HasPrior(calls[i].date) =>
            /\ calls[i].raised = "none"
            /\ calls[i].price = QuoteFor(MostRecent(calls[i].date), calls[i].type)

\* C5 (as claimed): after a fallback from d to d' the cache holds the record
\* under d', and the next query for d or for d' returns the same record's
\* quote without any request to the rate source.
C5_SecondQueryNoRequest ==
    /\ (Len(calls) > 0 /\ FellBack(calls[Len(calls)])) =>
           LET r == calls[Len(calls)].resolved
           IN r \in DOMAIN cache /\ cache[r] = [value |-> <<QuoteOf(r)>>]
    /\ \A i \in 1..(Len(calls) - 1) :
           (FellBack(calls[i]) /\ calls[i + 1].date \in {calls[i].date, calls[i].resolved}) =>
               /\ calls[i + 1].raised = "none"
               /\ calls[i + 1].queries = 0
               /\ calls[i + 1].price = QuoteFor(calls[i].resolved, calls[i + 1].type)

\* C5 (amended): after a fallback from d to d' the cache holds the record
\* under d' and not under d; every later query for d' returns that record's
\* quote with no request to the source; a query for d made right after is a
\* cache miss that repeats the same requests and returns the same record's quote.
C5_ResolvedDateCached ==
    /\ (Len(calls) > 0 /\ FellBack(calls[Len(calls)])) =>
           LET c == calls[Len(calls)]
           IN /\ c.resolved \in DOMAIN cache
              /\ cache[c.resolved] = [value |-> <<QuoteOf(c.resolved)>>]
              /\ c.date \notin DOMAIN cache
    /\ \A i \in 1..Len(calls) : \A j \in (i + 1)..Len(calls) :
           (FellBack(calls[i]) /\ calls[j].date = calls[i].resolved) =>
               /\ calls[j].raised = "none"
               /\ calls[j].hit
               /\ calls[j].queries = 0
               /\ calls[j].price = QuoteFor(calls[i].resolved, calls[j].type)
    /\ \A i \in 1..(Len(calls) - 1) :
           (FellBack(calls[i]) /\ calls[i + 1].date = calls[i].date) =>
               /\ calls[i + 1].raised = "none"
               /\ ~calls[i + 1].hit
               /\ calls[i + 1].queries = calls[i].queries
               /\ calls[i + 1].queries >= 2
               /\ calls[i + 1].resolved = calls[i].resolved
               /\ calls[i + 1].price = QuoteFor(calls[i].resolved, calls[i + 1].type)

C5_Witness ==
    \E i \in 1..(Len(calls) - 2) :
        /\ FellBack(calls[i])
        /\ calls[i + 1].date = calls[i].date /\ calls[i + 1].type # calls[i].type
        /\ calls[i + 2].date = calls[i].resolved /\ calls[i + 2].raised = "none"

----------------------------------------------------------------------------
(* Claims about the transaction processor (specification Spec) *)

(* the entries the for loop has processed so far *)
Processed == IF command = "process" THEN 1..(idx - 1) ELSE {}

PreviousQuantity(i) == IF i = 1 THEN Zero ELSE registry[i - 1].total_qty
PreviousAverage(i) == IF i = 1 THEN Zero ELSE registry[i - 1].avg_price

\* C2: the running quantity written on entry i is the one written on entry
\* i-1 (0 before the first) plus the quantity on a PURCHASE and minus it on a
\* SALE, negative results included; an arithmetic error is never raised on a
\* negative result (only when a PURCHASE brings the holdings to exactly zero).
C2_RunningQuantity ==
    /\ \A i \in Processed :
        /\ registry[i].op_type \in {"BUY", "SELL"}
        /\ registry[i].op_type = "BUY" =>
               registry[i].total_qty = Add(PreviousQuantity(i), registry[i].qty)
        /\ registry[i].op_type = "SELL" =>
               registry[i].total_qty = Sub(PreviousQuantity(i), registry[i].qty)
    /\ (command = "process" /\ err = "ZeroDivisionError") =>
           /\ registry[idx].op_type = "BUY"
           /\ Add(PreviousQuantity(idx), registry[idx].qty) = Zero

C2_Witness ==
    \E i \in Processed :
        /\ registry[i].total_qty.n < 0
        /\ i + 1 \in Processed
        /\ registry[i + 1].total_qty.n < 0
        /\ registry[i + 1].op_type = "BUY"

(* the pass of the example: a purchase of 10 at 20.00, then a sale of 4 *)
ExamplePass ==
    /\ 2 \in Processed
    /\ registry[1].op_type = "BUY" /\ registry[1].qty = Int2Num(10)
    /\ registry[1].price_eur = Int2Num(20) /\ registry[1].cur_conv_rate = Int2Num(5)
    /\ registry[2].op_type = "SELL" /\ registry[2].qty = Int2Num(4)
    /\ registry[2].net_proceeds = Int2Num(76) /\ registry[2].cur_conv_rate = Num(52, 10)

\* C3: on every processed SALE, profit = r * net_proceeds - qty * (average
\* price in force before the sale), r being the sell quote resolved for the
\* entry's date, and tax = 0.15 * profit with no floor at zero; the example
\* (purchase 10 at 20.00 at rate 5, sale of 4 with proceeds 76 at rate 5.2)
\* gives average 100, profit -4.8, tax -0.72 and running quantity 6.
C3_SaleProfitAndTax ==
    /\ \A i \in Processed :
        registry[i].op_type = "SELL" =>
            LET r == calls[i].price
                cost == Mul(registry[i].qty, PreviousAverage(i))
            IN /\ calls[i].date = registry[i].date
               /\ calls[i].type = "BRL_TO_EUR"
               /\ r = QuoteOf(calls[i].resolved).cotacaoVenda
               /\ registry[i].cur_conv_rate = r
               /\ registry[i].profit = Sub(Mul(r, registry[i].net_proceeds), cost)
               /\ registry[i].tax = Mul(Num(15, 100), registry[i].profit)
    /\ ExamplePass =>
           /\ registry[1].total_cost_brl = Int2Num(1000)
           /\ registry[1].avg_price = Int2Num(100)
           /\ registry[2].profit = Num(-48, 10)
           /\ registry[2].tax = Num(-72, 100)
           /\ registry[2].total_qty = Int2Num(6)

C3_Witness == ExamplePass /\ registry[2].tax.n < 0

(* the nearest PURCHASE before entry i, 0 if there is none *)
LastBuyBefore(i) ==
    LET buys == {j \in 1..(i - 1) : registry[j].op_type = "BUY"}
    IN IF buys = {} THEN 0 ELSE CHOOSE j \in buys : \A m \in buys : m <= j

\* C6: the average cost basis written on a SALE is the one written on the
\* nearest preceding PURCHASE (0 if there is none), so it is the same across
\* any run of consecutive SALE entries.
C6_AverageCarriedOnSale ==
    \A i \in Processed :
        registry[i].op_type = "SELL" =>
            registry[i].avg_price =
                IF LastBuyBefore(i) = 0 THEN Zero ELSE registry[LastBuyBefore(i)].avg_price

C6_Witness ==
    \E i \in Processed :
        /\ i + 2 \in Processed
        /\ registry[i].op_type = "BUY"
        /\ registry[i + 1].op_type = "SELL" /\ registry[i + 2].op_type = "SELL"
        /\ registry[i + 1].total_qty = Zero
        /\ registry[i + 2].avg_price # Zero

(* a state between two iterations of the pass, or after the last one *)
BetweenTransitions == command = "process" /\ pc \in {"processing", "saved", "reloaded"}

AverageOfLastBuy ==
    IF LastBuyBefore(idx) = 0 THEN Zero ELSE registry[LastBuyBefore(idx)].avg_price

\* C10 (as claimed): after every transition average_price is total_cost_local
\* / total_quantity when total_quantity is nonzero and zero when it is zero.
C10_AverageZeroWhenEmpty ==
    BetweenTransitions =>
        /\ total_qty # Zero => current_avg_price = Div(total_cost_brl, total_qty)
        /\ total_qty = Zero => current_avg_price = Zero

\* C10 (amended): after every transition that completes, average_price is
\* total_cost_local / total_quantity when total_quantity is nonzero; when
\* total_quantity is zero (only a SALE gets there: a PURCHASE that brings it
\* to zero raises ZeroDivisionError) total_cost_local is zero and
\* average_price keeps the value of the last PURCHASE, 0 if there was none.
C10_AverageConsistent ==
    /\ BetweenTransitions =>
        /\ total_qty # Zero => current_avg_price = Div(total_cost_brl, total_qty)
        /\ total_qty = Zero =>
               /\ total_cost_brl = Zero
               /\ current_avg_price = AverageOfLastBuy
               /\ idx > 1 => registry[idx - 1].op_type = "SELL"
    /\ (command = "process" /\ err = "ZeroDivisionError") =>
           registry[idx].op_type = "BUY" /\ total_qty = Zero

C10_Witness ==
    /\ BetweenTransitions
    /\ total_qty = Zero
    /\ current_avg_price # Zero
    /\ idx = 3

\* C9 (as claimed): a call that misses the cache returns after (days walked
\* back + 1) requests when some date on or before the requested one has a
\* rate, and otherwise never ends, neither with a value nor with an error.
C9_NoDataNeverEnds ==
    \A i \in 1..Len(calls) :
        ~calls[i].hit =>
            /\ HasPrior(calls[i].date)
            /\ calls[i].raised = "none"
            /\ calls[i].resolved = MostRecent(calls[i].date)
            /\ calls[i].queries = calls[i].date - calls[i].resolved + 1

\* C9 (amended): a call that misses the cache returns after (days walked back
\* + 1) requests when some date on or before the requested one has a rate;
\* otherwise it returns no value: it walks back to 0001-01-01, one request a
\* day, where the step to the day before raises OverflowError, and the pass
\* that called it ends there without writing its output.
C9_WalkBackEnds ==
    \A i \in 1..Len(calls) :
        ~calls[i].hit =>
            /\ HasPrior(calls[i].date) =>
                /\ calls[i].raised = "none"
                /\ calls[i].resolved = MostRecent(calls[i].date)
                /\ calls[i].queries = calls[i].date - calls[i].resolved + 1
            /\ ~HasPrior(calls[i].date) =>
                /\ calls[i].raised = "OverflowError"
                /\ calls[i].price = None
                /\ calls[i].resolved = MinOrdinal
                /\ calls[i].queries = calls[i].date - MinOrdinal + 1
                /\ i = Len(calls)
                /\ pc = "error" /\ err = "OverflowError"
                /\ output = NoFile
                /\ idx <= Len(registry)

C9_Witness ==
    /\ command = "process" /\ err = "OverflowError"
    /\ calls[Len(calls)].queries = MaxDate

C9_WitnessFound ==
    \E i \in 1..Len(calls) : ~calls[i].hit /\ calls[i].raised = "none" /\ calls[i].queries = MaxDate

(* two fields agree: the same number, or no value on both sides *)
SameField(a, b) == IF IsNum(a) \/ IsNum(b) THEN a = b ELSE TRUE

SameEntry(a, b) ==
    /\ a.date = b.date /\ a.op_type = b.op_type /\ a.cur_conv_type = b.cur_conv_type
    /\ SameField(a.qty, b.qty) /\ SameField(a.total_qty, b.total_qty)
    /\ SameField(a.cur_conv_rate, b.cur_conv_rate) /\ SameField(a.avg_price, b.avg_price)
    /\ SameField(a.price_eur, b.price_eur) /\ SameField(a.price_brl, b.price_brl)
    /\ SameField(a.net_proceeds, b.net_proceeds) /\ SameField(a.profit, b.profit)
    /\ SameField(a.tax, b.tax) /\ SameField(a.total_cost_brl, b.total_cost_brl)

\* C8 (as claimed): the entries read back from a written ledger equal the
\* written ones in every field, a field without a value coming back without
\* a value and every field the processor wrote coming back with its value.
C8_RoundTrip ==
    pc = "reloaded" =>
        /\ Len(reloaded) = Len(registry)
        /\ \A i \in 1..Len(registry) : SameEntry(reloaded[i], registry[i])

----------------------------------------------------------------------------
(* A second pass over a ledger that a pass has processed *)

(* process_transactions is called again, in the same process, on the list it
   returned: the aggregates start from zero, the cache is the one left *)
ProcessAgain ==
    /\ command = "process" /\ pc = "saved" /\ pass = 1
    /\ pass' = 2
    /\ pc' = "processing"
    /\ idx' = 1
    /\ total_qty' = Zero /\ total_cost_brl' = Zero /\ current_avg_price' = Zero
    /\ calls' = <<>>
    /\ UNCHANGED <<published, cache, command, err, registry, inputs, output, reloaded>>

(* a new process is given the written ledger as its input: the cache is empty *)
ReprocessOutput ==
    /\ command = "process" /\ pc = "reloaded" /\ pass = 1
    /\ pass' = 2
    /\ inputs' = <<output>>
    /\ registry' = reloaded
    /\ cache' = <<>>
    /\ calls' = <<>>
    /\ pc' = "processing"
    /\ idx' = 1
    /\ total_qty' = Zero /\ total_cost_brl' = Zero /\ current_avg_price' = Zero
    /\ UNCHANGED <<published, command, err, output, reloaded>>

NextReprocess == Next \/ ProcessAgain \/ ReprocessOutput

SpecReprocess == InitProcess /\ [][NextReprocess]_vars

NextReprocessFresh == Next \/ ReprocessOutput

SpecReprocessFresh == InitProcess /\ [][NextReprocessFresh]_vars

(* the second pass is running, or has failed; output is what the first wrote *)
InLaterPass == command = "process" /\ pass = 2 /\ pc \in {"processing", "error"}

\* C11 (as claimed): a full pass over a ledger that a pass has processed, with
\* the aggregates reseeded and the same rate source, in the same process (cache
\* kept) or in a new one (cache empty), completes, writes on every entry the
\* computed fields the first pass wrote, and keeps the length, the order and
\* each entry's date, operation, quantity, price and net proceeds.
C11_SecondPassSame ==
    InLaterPass =>
        /\ pc # "error"
        /\ Len(registry) = Len(output)
        /\ \A i \in 1..Len(registry) :
            /\ registry[i].date = output[i].date
            /\ RowOf(registry[i]).op_type = output[i].op_type
            /\ RowOf(registry[i]).qty = output[i].qty
            /\ RowOf(registry[i]).price_eur = output[i].price_eur
            /\ RowOf(registry[i]).net_proceeds = output[i].net_proceeds
        /\ \A i \in Processed : RowOf(registry[i]) = output[i]

(* the second pass has gone through a whole ledger of a purchase and a sale *)
C11_LaterPassDone ==
    /\ InLaterPass /\ pc = "processing"
    /\ idx > Len(registry) /\ Len(registry) >= 2
    /\ \E i \in Processed : registry[i].op_type = "BUY"
    /\ \E i \in Processed : registry[i].op_type = "SELL" /\ calls[i].queries > 1

----------------------------------------------------------------------------
(* Claims about the extract and merge flows (specification SpecAssemble) *)

Sorted(entries) ==
    \A i \in 1..Len(entries) : \A j \in (i + 1)..Len(entries) :
        /\ entries[i].date <= entries[j].date
        /\ entries[i].date = entries[j].date =>
               ~(entries[i].op_type = "SELL" /\ entries[j].op_type = "BUY")

Count(seq, Test(_)) == Cardinality({i \in 1..Len(seq) : Test(seq[i])})

(* the rows handed to merge, file after file *)
InputRows == IF Len(inputs) = 1 THEN inputs[1] ELSE inputs[1] \o inputs[2]

(* registry holds one entry per input record: the same number of entries for
   every date, operation and quantity *)
OnePerRecord ==
    /\ command = "extract" =>
        /\ Len(registry) = Len(inputs[1]) + Len(inputs[2])
        /\ \A d \in Dates : \A q \in Quantities :
            /\ Count(registry, LAMBDA e : e.op_type = "BUY" /\ e.date = d /\ e.qty = q)
                   = Count(inputs[1], LAMBDA b : b.date = d /\ b.qty = q)
            /\ Count(registry, LAMBDA e : e.op_type = "SELL" /\ e.date = d /\ e.qty = q
                                           /\ e.net_proceeds = NetProceeds)
                   = Count(inputs[2], LAMBDA x : x.date = d /\ x.qty = q)
    /\ command = "merge" =>
        /\ Len(registry) = Len(InputRows)
        /\ \A d \in Dates : \A op \in {"BUY", "SELL"} :
            Count(registry, LAMBDA e : e.op_type = op /\ e.date = d)
                = Count(InputRows, LAMBDA row : row.op_type = Text("OpType", op) /\ row.date = d)
        /\ \A d \in Dates :
            Count(registry, LAMBDA e : e.date = d) = Count(InputRows, LAMBDA row : row.date = d)

\* C4: the ledger built by the assembler and the ledger built by merge are
\* ordered by date with PURCHASE before SALE on equal dates, whatever the
\* order of the input, hold exactly one entry per input record, and are
\* written and read back in that order.
C4_LedgerOrdered ==
    (command \in {"extract", "merge"} /\ pc \in {"saved", "reloaded"}) =>
        /\ Sorted(registry)
        /\ OnePerRecord
        /\ Len(output) = Len(registry)
        /\ \A i \in 1..Len(output) : output[i].date = registry[i].date
        /\ pc = "reloaded" =>
               /\ Sorted(reloaded)
               /\ Len(reloaded) = Len(registry)

C4_Witness ==
    /\ command = "merge" /\ pc = "reloaded"
    /\ Len(inputs) = 2
    /\ Len(inputs[1]) = 1 /\ inputs[1][1].date = 3
    /\ Len(inputs[2]) = 2
    /\ inputs[2][1] = SaleRow(1, Int2Num(10)) /\ inputs[2][2] = PurchaseRow(1, Int2Num(10))
    /\ reloaded[1].op_type = "BUY" /\ reloaded[2].op_type = "SELL" /\ reloaded[3].date = 3

C4_WitnessExtract ==
    /\ command = "extract" /\ pc = "saved"
    /\ Len(inputs[1]) = 2 /\ inputs[1][1].date > inputs[1][2].date
    /\ Len(inputs[2]) = 1 /\ inputs[2][1].date = inputs[1][2].date

\* C7 (as claimed): when a record whose operation text parses to neither
\* PURCHASE nor SALE is read, the run ends in an error and writes no output.
C7_UnparseableTagIsFatal ==
    (\E i \in 1..Len(registry) : registry[i].op_type = "None") =>
        /\ pc \notin {"saved", "reloaded"}
        /\ output = NoFile

====
